---- MODULE Spec2Model ----
(***************************************************************************)
(* A model of the reconciliation script src/code.py: header detection,     *)
(* the prefixing loader, the overlap report, the fuzzy map, the left-join  *)
(* cascade, the final deduplication, the column reordering and the         *)
(* refined projection.                                                     *)
(*                                                                         *)
(* Text is a sequence of symbols.  Names that go through normalize_text    *)
(* and the similarity scorer are spelled one character per symbol; column  *)
(* labels are spelled with the symbols the script tests them by (the       *)
(* category, the ".", the rest).  A missing cell (NaN / None) is NA.       *)
(* A table is [cols: sequence of column names, rows: sequence of           *)
(* functions from the column names to cells].                              *)
(***************************************************************************)
EXTENDS Integers, Sequences, FiniteSets, TLC

VARIABLES
    files,          \* file name -> [exists, sheet]: the spreadsheets on disk
    pc,             \* the section of the script about to run
    err,            \* the exception that ended the run, or "none"
    hdr_of,         \* file name -> what detect_header_row last returned for it
    inv_raw,        \* investors, loaded for the overlap analysis (section 4)
    people_raw,     \* people, loaded for the overlap analysis (section 4)
    fuzzy_map,      \* investor legal name -> people name or NA (section 5)
    deals_df,
    companies_df,
    investors_df,
    people_df,
    mapping_df,
    merged,         \* the joined table, before the final dedupe (section 7)
    final_df,       \* the deduplicated table (section 8)
    disk            \* output artifact -> <<>> (not written) or <<what was written>>

vars == <<files, pc, err, hdr_of, inv_raw, people_raw, fuzzy_map, deals_df,
          companies_df, investors_df, people_df, mapping_df, merged, final_df, disk>>

-----------------------------------------------------------------------------
(* Text *)

NA == <<"<NaN>">>

Space == " "

Range(s) == {s[i] : i \in 1..Len(s)}

Min(a, b) == IF a <= b THEN a ELSE b

Max(a, b) == IF a >= b THEN a ELSE b

RECURSIVE LStrip(_)
LStrip(s) == IF s # <<>> /\ Head(s) = Space THEN LStrip(Tail(s)) ELSE s

RECURSIVE RStrip(_)
RStrip(s) ==
    IF s # <<>> /\ s[Len(s)] = Space THEN RStrip(SubSeq(s, 1, Len(s) - 1)) ELSE s

\* str.strip()
Strip(s) == RStrip(LStrip(s))

\* Series.str.strip(): a missing cell stays missing
StrStrip(c) == IF c = NA THEN NA ELSE Strip(c)

\* astype(str): a missing cell becomes the text "nan"
AsStr(c) == IF c = NA THEN <<"n", "a", "n">> ELSE c

\* fillna("")
FillNa(c) == IF c = NA THEN <<>> ELSE c

StartsWith(s, p) == Len(s) >= Len(p) /\ SubSeq(s, 1, Len(p)) = p

EndsWith(s, p) == Len(s) >= Len(p) /\ SubSeq(s, Len(s) - Len(p) + 1, Len(s)) = p

\* the position of the first occurrence of x in s (list.index)
RECURSIVE IndexFrom(_, _, _)
IndexFrom(s, x, i) == IF s[i] = x THEN i ELSE IndexFrom(s, x, i + 1)

Index(s, x) == IndexFrom(s, x, 1)

\* the distinct elements of s in order of first appearance (unique())
RECURSIVE Unique(_)
Unique(s) ==
    IF s = <<>> THEN <<>>
    ELSE LET r == Unique(SubSeq(s, 1, Len(s) - 1))
             x == s[Len(s)]
         IN IF x \in Range(r) THEN r ELSE Append(r, x)

RECURSIVE Flatten(_)
Flatten(ss) == IF ss = <<>> THEN <<>> ELSE Head(ss) \o Flatten(Tail(ss))

-----------------------------------------------------------------------------
(* Tables *)

NoFrame == [cols |-> <<>>, rows |-> <<>>]

ColSet(df) == Range(df.cols)

Column(df, c) == [i \in 1..Len(df.rows) |-> df.rows[i][c]]

\* df[c] = vals, one value per row: overwrite the column, or append it when
\* it is new
Assign(df, c, vals) ==
    [cols |-> IF c \in ColSet(df) THEN df.cols ELSE Append(df.cols, c),
     rows |-> [i \in 1..Len(df.rows) |->
                 [k \in ColSet(df) \cup {c} |->
                     IF k = c THEN vals[i] ELSE df.rows[i][k]]]]

\* df[c] = v, the same value in every row
AssignAll(df, c, v) == Assign(df, c, [i \in 1..Len(df.rows) |-> v])

\* df[cols]: the listed columns in the listed order (a label listed twice
\* is kept twice in cols)
Select(df, cols) ==
    [cols |-> cols,
     rows |-> [i \in 1..Len(df.rows) |-> [k \in Range(cols) |-> df.rows[i][k]]]]

\* df.drop(columns=...)
Drop(df, dropped) == Select(df, SelectSeq(df.cols, LAMBDA c : c \notin dropped))

\* the columns renamed to newcols, position by position (the new names are
\* distinct)
Rename(df, newcols) ==
    [cols |-> newcols,
     rows |-> [i \in 1..Len(df.rows) |->
                 [k \in Range(newcols) |-> df.rows[i][df.cols[Index(newcols, k)]]]]]

\* pd.concat(dfs, ignore_index=True): the union of the columns in order of
\* first appearance, the rows one table after the other, NaN where a table
\* lacks a column
concat(dfs) ==
    LET cols == Unique(Flatten([i \in 1..Len(dfs) |-> dfs[i].cols]))
        Widen(df) == [i \in 1..Len(df.rows) |->
                        [k \in Range(cols) |->
                            IF k \in ColSet(df) THEN df.rows[i][k] ELSE NA]]
    IN [cols |-> cols, rows |-> Flatten([i \in 1..Len(dfs) |-> Widen(dfs[i])])]

RECURSIVE KeepFirst(_, _, _)
KeepFirst(rows, subset, i) ==
    IF i > Len(rows) THEN <<>>
    ELSE LET key(j) == [k \in subset |-> rows[j][k]]
             rest == KeepFirst(rows, subset, i + 1)
         IN IF \E j \in 1..(i - 1) : key(j) = key(i) THEN rest
            ELSE <<rows[i]>> \o rest

\* df.drop_duplicates(subset=..., ignore_index=True): of the rows that agree
\* on subset the first stays; two missing values count as equal
drop_duplicates(df, subset) ==
    [cols |-> df.cols, rows |-> KeepFirst(df.rows, subset, 1)]

\* pandas joins two keys when they are equal, and a missing key on the left
\* with a missing key on the right
KeysMatch(l, r) == l = r

\* left.merge(right, left_on=..., right_on=..., how="left"): the left rows in
\* order, each with every matching right row in the right table's order, or
\* once with NaN in the right columns
merge(left, right, left_on, right_on) ==
    LET blank == [k \in ColSet(right) |-> NA]
        Matches(l) == SelectSeq(right.rows, LAMBDA r : KeysMatch(l[left_on], r[right_on]))
        Joined(l) == LET m == Matches(l)
                     IN IF m = <<>> THEN <<l @@ blank>>
                        ELSE [j \in 1..Len(m) |-> l @@ m[j]]
    IN [cols |-> left.cols \o right.cols,
        rows |-> Flatten([i \in 1..Len(left.rows) |-> Joined(left.rows[i])])]

-----------------------------------------------------------------------------
(* 2) Header detection *)

nrows == 20

NotFound == -1

\* {str(x).strip() for x in row.dropna().astype(str)}
Tokens(row) == {Strip(AsStr(row[j])) : j \in {k \in 1..Len(row) : row[k] # NA}}

RECURSIVE ScanRows(_, _, _)
ScanRows(preview, id_cols, i) ==
    IF i > Len(preview) THEN NotFound
    ELSE IF Tokens(preview[i]) \cap id_cols # {} THEN i - 1
    ELSE ScanRows(preview, id_cols, i + 1)

\* the preview as it would be without nrows
PreviewWholeSheet(sheet) == sheet

\* pd.read_excel(path, header=None, nrows=20)
Preview(sheet) == SubSeq(sheet, 1, Min(nrows, Len(sheet)))

\* the 0-based index of the header row, or NotFound where the code raises
\* ValueError
detect_header_row(sheet, id_cols) == ScanRows(Preview(sheet), id_cols, 1)

-----------------------------------------------------------------------------
(* 1) Input file lists and output names *)

deal_files == <<"deals_PitchBook_Search_Result_Columns_2024_11_21_16_55_11.xlsx",
               "deals_PitchBook_Search_Result_Columns_2024_12_12_14_00_02.xlsx">>

company_files == <<"companies_PitchBook_Search_Result_Columns_2024_11_21_16_55_55.xlsx",
                 "companies_PitchBook_Search_Result_Columns_2024_12_12_13_56_26.xlsx">>

investor_files == <<"investors_PitchBook_Search_Result_Columns_2024_11_21_17_00_53.xlsx",
                  "investors_PitchBook_Search_Result_Columns_2024_12_30_13_49_02.xlsx",
                  "investors2_PitchBook_Search_Result_Columns_2024_11_25_19_40_00.xlsx",
                  "investors3_PitchBook_All_Columns_2025_05_30_15_45_26.xlsx">>

people_files == <<"people_PitchBook_Search_Result_Columns_2024_11_21_17_01_48.xlsx",
                "people_PitchBook_Search_Result_Columns_2024_12_12_14_08_01.xlsx">>

mapping_files == <<"PitchBook_Deal_Investors_2025_05_29_23_02_47.xlsx",
                 "PitchBook_Deal_Investors_2025_05_30_20_36_20.xlsx">>

AllFiles == Range(deal_files) \cup Range(company_files) \cup Range(investor_files)
            \cup Range(people_files) \cup Range(mapping_files)

OUTPUT_MERGED == "final_merged_deals_companies_investors_people.xlsx"

OUTPUT_REFINED == "final_refined_deals_companies_investors_people.xlsx"

DEBUG_OVERLAP == "join_overlap.csv"

Artifacts == {OUTPUT_MERGED, OUTPUT_REFINED, DEBUG_OVERLAP}

\* column labels
L(prefix, name) == <<prefix, ".", name>>

inv_id_cols == {<<"Investor ID">>, <<"Investor Legal Name">>, <<"PBId">>}

people_id_cols == {<<"PBId">>, <<"Primary Company">>}

deal_id_cols == {<<"Deal ID">>}

company_id_cols == {<<"Company ID">>}

mapping_id_cols == {<<"Deal ID">>, <<"Company ID">>, <<"Investor ID">>}

-----------------------------------------------------------------------------
(* 3) Generic loader *)

DigitTok == <<"0", "1", "2", "3", "4", "5", "6", "7", "8", "9">>

\* the name pandas gives the column under a blank header cell
UnnamedCol(i) == <<"Unnamed", ": ", DigitTok[i + 1]>>

\* pd.read_excel(fn, header=hdr, dtype=str): row hdr names the columns, the
\* rows below it are the data
read_excel(sheet, hdr) ==
    LET header == sheet[hdr + 1]
        cols == [i \in 1..Len(header) |->
                    IF header[i] = NA THEN UnnamedCol(i - 1) ELSE header[i]]
        data == SubSeq(sheet, hdr + 2, Len(sheet))
    IN [cols |-> cols,
        rows |-> [r \in 1..Len(data) |->
                    [k \in Range(cols) |-> data[r][Index(cols, k)]]]]

\* os.path.basename of a name without a directory part
basename(fn) == <<fn>>

\* the exception one file of a category raises, or "none"
FileError(fn, id_cols) ==
    IF ~files[fn].exists THEN "FileNotFoundError"
    ELSE IF detect_header_row(files[fn].sheet, id_cols) = NotFound THEN "ValueError"
    ELSE "none"

RECURSIVE FirstBad(_, _, _)
FirstBad(fns, id_cols, i) ==
    IF i > Len(fns) THEN 0
    ELSE IF FileError(fns[i], id_cols) # "none" THEN i
    ELSE FirstBad(fns, id_cols, i + 1)

\* the body of the loader's loop for a file that exists and has a header
LoadFile(fn, prefix, ftype, id_cols) ==
    LET hdr == detect_header_row(files[fn].sheet, id_cols)
        raw == read_excel(files[fn].sheet, hdr)
        \* df.columns.map(str).str.strip()
        df  == Rename(raw, [i \in 1..Len(raw.cols) |-> Strip(raw.cols[i])])
        df1 == AssignAll(df, L(prefix, "file_source"), basename(fn))
        df2 == AssignAll(df1, L(prefix, "file_source_type"), <<ftype>>)
    IN Rename(df2, [i \in 1..Len(df2.cols) |->
                      IF StartsWith(df2.cols[i], <<prefix, ".">>) THEN df2.cols[i]
                      ELSE <<prefix, ".">> \o df2.cols[i]])

\* load_and_prefix: [err, df, scanned]; scanned are the files whose header
\* was looked for before the call returned or raised
load_and_prefix(fns, prefix, ftype, id_cols) ==
    LET bad == FirstBad(fns, id_cols, 1)
    IN IF bad # 0
       THEN [err |-> FileError(fns[bad], id_cols), df |-> NoFrame,
             scanned |-> {fns[i] : i \in {j \in 1..bad : files[fns[j]].exists}}]
       ELSE LET all == concat([i \in 1..Len(fns) |->
                                  LoadFile(fns[i], prefix, ftype, id_cols)])
            IN [err |-> "none", df |-> drop_duplicates(all, ColSet(all)),
                scanned |-> Range(fns)]

\* the record of the header searches of one call
Scanned(log, res, id_cols) ==
    [fn \in DOMAIN log |->
        IF fn \in res.scanned
        THEN <<[ids |-> id_cols, hdr |-> detect_header_row(files[fn].sheet, id_cols)]>>
        ELSE log[fn]]

-----------------------------------------------------------------------------
(* 5) Fuzzy map *)

UpperCase == <<"A", "B", "C", "D", "E", "F", "G", "H", "I", "J", "K", "L", "M",
               "N", "O", "P", "Q", "R", "S", "T", "U", "V", "W", "X", "Y", "Z">>

\* the characters [a-z0-9 ] in code-point order
CharOrder == <<" ", "0", "1", "2", "3", "4", "5", "6", "7", "8", "9",
               "a", "b", "c", "d", "e", "f", "g", "h", "i", "j", "k", "l", "m",
               "n", "o", "p", "q", "r", "s", "t", "u", "v", "w", "x", "y", "z">>

Lower(c) == IF c \in Range(UpperCase) THEN CharOrder[Index(UpperCase, c) + 11] ELSE c

\* re.sub(r"[^a-z0-9 ]", "", str(s).lower()).strip()
normalize_text(s) ==
    Strip(SelectSeq([i \in 1..Len(AsStr(s)) |-> Lower(AsStr(s)[i])],
                    LAMBDA c : c \in Range(CharOrder)))

Ord(c) == Index(CharOrder, c)

RECURSIVE LexLess(_, _)
LexLess(a, b) ==
    IF b = <<>> THEN FALSE
    ELSE IF a = <<>> THEN TRUE
    ELSE IF Head(a) = Head(b) THEN LexLess(Tail(a), Tail(b))
    ELSE Ord(Head(a)) < Ord(Head(b))

\* s.split(): the maximal runs of non-space characters
RECURSIVE Split(_)
Split(s) ==
    LET t == LStrip(s)
    IN IF t = <<>> THEN <<>>
       ELSE LET n == IF Space \in Range(t) THEN Index(t, Space) - 1 ELSE Len(t)
            IN <<SubSeq(t, 1, n)>> \o Split(SubSeq(t, n + 1, Len(t)))

RECURSIVE Insert(_, _)
Insert(sorted, x) ==
    IF sorted = <<>> THEN <<x>>
    ELSE IF LexLess(x, Head(sorted)) THEN <<x>> \o sorted
    ELSE <<Head(sorted)>> \o Insert(Tail(sorted), x)

RECURSIVE Sorted(_)
Sorted(ts) == IF ts = <<>> THEN <<>> ELSE Insert(Sorted(Tail(ts)), Head(ts))

RECURSIVE Join(_)
Join(ts) ==
    IF ts = <<>> THEN <<>>
    ELSE IF Len(ts) = 1 THEN Head(ts)
    ELSE Head(ts) \o <<Space>> \o Join(Tail(ts))

\* the length of a longest common subsequence
LCS(s, t) ==
    LET f[i \in 0..Len(s), j \in 0..Len(t)] ==
            IF i = 0 \/ j = 0 THEN 0
            ELSE IF s[i] = t[j] THEN f[i - 1, j - 1] + 1
            ELSE Max(f[i - 1, j], f[i, j - 1])
    IN f[Len(s), Len(t)]

\* fuzz.ratio: 100 * (1 - indel distance / (len + len)) = 100 * n / d, kept
\* as the fraction; two empty texts score 100
ratio(s, t) ==
    IF Len(s) + Len(t) = 0 THEN [n |-> 1, d |-> 1]
    ELSE [n |-> 2 * LCS(s, t), d |-> Len(s) + Len(t)]

\* fuzz.token_sort_ratio
token_sort_ratio(s, t) == ratio(Join(Sorted(Split(s))), Join(Sorted(Split(t))))

ScoreGreater(a, b) == a.n * b.d > b.n * a.d

threshold == 85

\* score >= threshold
AtLeast(score, th) == 100 * score.n >= th * score.d

\* extractOne as it would be if a later choice with an equal score replaced
\* the result
RECURSIVE ExtractLoopLast(_, _, _, _)
ExtractLoopLast(query, choices, i, best) ==
    IF i > Len(choices) THEN best
    ELSE IF best = 0 \/ ~ScoreGreater(token_sort_ratio(query, choices[best]),
                                      token_sort_ratio(query, choices[i]))
    THEN ExtractLoopLast(query, choices, i + 1, i)
    ELSE ExtractLoopLast(query, choices, i + 1, best)

\* the loop of process.extractOne: a later choice replaces the result only
\* with a strictly greater score
RECURSIVE ExtractLoop(_, _, _, _)
ExtractLoop(query, choices, i, best) ==
    IF i > Len(choices) THEN best
    ELSE IF best = 0 \/ ScoreGreater(token_sort_ratio(query, choices[i]),
                                     token_sort_ratio(query, choices[best]))
    THEN ExtractLoop(query, choices, i + 1, i)
    ELSE ExtractLoop(query, choices, i + 1, best)

\* process.extractOne(query, choices, scorer=fuzz.token_sort_ratio), choices
\* not empty
extractOne(query, choices) ==
    LET b == ExtractLoop(query, choices, 1, 0)
    IN [best |-> choices[b], score |-> token_sort_ratio(query, choices[b])]

\* the value of fuzzy_map for one investor name
FuzzyEntry(invn, people_names) ==
    LET pe_norm == [i \in 1..Len(people_names) |-> normalize_text(people_names[i])]
        r == extractOne(normalize_text(invn), pe_norm)
    IN IF AtLeast(r.score, threshold) THEN people_names[Index(pe_norm, r.best)]
       ELSE NA

-----------------------------------------------------------------------------
(* 4) Load investors and people for the overlap analysis *)

Has(df, cols) == cols \subseteq ColSet(df)

\* x.str.strip().fillna("")
NormKey(c) == FillNa(StrStrip(c))

inv_keys == <<L("inv", "Investor ID"), L("inv", "Investor Legal Name"), L("inv", "PBId")>>

people_keys == <<L("people", "PBId"), L("people", "Primary Company")>>

NormKeys(df, keys) ==
    [cols |-> df.cols,
     rows |-> [i \in 1..Len(df.rows) |->
                 [k \in ColSet(df) |->
                     IF k \in Range(keys) THEN NormKey(df.rows[i][k])
                     ELSE df.rows[i][k]]]]

LoadOverlapInputs ==
    /\ pc = "load_overlap"
    /\ LET ri == load_and_prefix(investor_files, "inv", "investors", inv_id_cols)
           rp == load_and_prefix(people_files, "people", "people", people_id_cols)
           e  == IF ri.err # "none" THEN ri.err
                 ELSE IF rp.err # "none" THEN rp.err
                 ELSE IF ~Has(ri.df, Range(inv_keys)) \/ ~Has(rp.df, Range(people_keys))
                 THEN "KeyError"
                 ELSE "none"
       IN /\ hdr_of' = IF ri.err # "none" THEN Scanned(hdr_of, ri, inv_id_cols)
                       ELSE Scanned(Scanned(hdr_of, ri, inv_id_cols), rp, people_id_cols)
          /\ err' = e
          /\ pc' = IF e = "none" THEN "overlap" ELSE "aborted"
          /\ inv_raw' = IF e = "none" THEN NormKeys(ri.df, inv_keys) ELSE ri.df
          /\ people_raw' = IF e = "none" THEN NormKeys(rp.df, people_keys)
                           ELSE IF ri.err = "none" THEN rp.df ELSE people_raw
    /\ UNCHANGED <<files, fuzzy_map, deals_df, companies_df, investors_df, people_df,
                   mapping_df, merged, final_df, disk>>

\* one row of the overlap report; a percentage is kept as <<common, unique>>
OverlapRow(ik, pk) ==
    LET is == Range(Column(inv_raw, ik))
        ps == Range(Column(people_raw, pk))
    IN [investor_col |-> ik, people_col |-> pk,
        inv_unique |-> Cardinality(is), ppl_unique |-> Cardinality(ps),
        common |-> Cardinality(is \cap ps)]

\* sort_values("common", ascending=False) of the six rows
RECURSIVE InsertDesc(_, _)
InsertDesc(sorted, x) ==
    IF sorted = <<>> THEN <<x>>
    ELSE IF x.common > Head(sorted).common THEN <<x>> \o sorted
    ELSE <<Head(sorted)>> \o InsertDesc(Tail(sorted), x)

RECURSIVE SortDesc(_)
SortDesc(rs) ==
    IF rs = <<>> THEN <<>>
    ELSE InsertDesc(SortDesc(SubSeq(rs, 1, Len(rs) - 1)), rs[Len(rs)])

overlap ==
    SortDesc(Flatten([i \in 1..Len(inv_keys) |->
                        [j \in 1..Len(people_keys) |->
                            OverlapRow(inv_keys[i], people_keys[j])]]))

OverlapAnalysis ==
    /\ pc = "overlap"
    /\ disk' = [disk EXCEPT ![DEBUG_OVERLAP] = <<overlap>>]
    /\ pc' = "fuzzy"
    /\ UNCHANGED <<files, err, hdr_of, inv_raw, people_raw, fuzzy_map, deals_df,
                   companies_df, investors_df, people_df, mapping_df, merged, final_df>>

-----------------------------------------------------------------------------
(* 5) Build the fuzzy map *)

inv_names == Unique(Column(inv_raw, L("inv", "Investor Legal Name")))

people_names == Unique(Column(people_raw, L("people", "Primary Company")))

BuildFuzzyMap ==
    /\ pc = "fuzzy"
    /\ IF inv_names # <<>> /\ people_names = <<>>
       THEN \* extractOne returns None and the unpacking raises
            /\ err' = "TypeError"
            /\ pc' = "aborted"
            /\ UNCHANGED <<fuzzy_map, inv_raw>>
       ELSE /\ fuzzy_map' = [n \in Range(inv_names) |-> FuzzyEntry(n, people_names)]
            /\ inv_raw' = Assign(inv_raw, <<"fuzzy_people">>,
                                 [i \in 1..Len(inv_raw.rows) |->
                                    fuzzy_map'[inv_raw.rows[i][L("inv", "Investor Legal Name")]]])
            /\ pc' = "load_all"
            /\ err' = err
    /\ UNCHANGED <<files, hdr_of, people_raw, deals_df, companies_df, investors_df,
                   people_df, mapping_df, merged, final_df, disk>>

-----------------------------------------------------------------------------
(* 6) Load and union all categories *)

usecols == <<<<"Deal ID">>, <<"Company ID">>, <<"Investor ID">>>>

\* the exception one mapping file raises, or "none": read_excel raises for a
\* missing file, detect_header_row when no header is found, and read_excel
\* again when a column of usecols is not in the header row
MapFileError(fn) ==
    IF ~files[fn].exists THEN "FileNotFoundError"
    ELSE LET hdr == detect_header_row(files[fn].sheet, mapping_id_cols)
         IN IF hdr = NotFound THEN "ValueError"
            ELSE IF ~Has(read_excel(files[fn].sheet, hdr), Range(usecols)) THEN "ValueError"
            ELSE "none"

RECURSIVE FirstBadMap(_)
FirstBadMap(i) ==
    IF i > Len(mapping_files) THEN 0
    ELSE IF MapFileError(mapping_files[i]) # "none" THEN i
    ELSE FirstBadMap(i + 1)

\* the body of the mapping loop: the three columns, deduplicated, stamped
LoadMapFile(fn) ==
    LET hdr == detect_header_row(files[fn].sheet, mapping_id_cols)
        all == read_excel(files[fn].sheet, hdr)
        m   == Select(all, SelectSeq(all.cols, LAMBDA c : c \in Range(usecols)))
        md  == drop_duplicates(m, ColSet(m))
        ms  == AssignAll(md, L("map", "file_source"), basename(fn))
    IN AssignAll(ms, L("map", "file_source_type"), <<"mapping">>)

\* lines 143-152: concat, drop_duplicates over all columns, rename, strip
MappingTable ==
    LET all == concat([i \in 1..Len(mapping_files) |-> LoadMapFile(mapping_files[i])])
        d   == drop_duplicates(all, ColSet(all))
        r   == Rename(d, [i \in 1..Len(d.cols) |->
                            IF d.cols[i] \in Range(usecols) THEN <<"map", ".">> \o d.cols[i]
                            ELSE d.cols[i]])
    IN Assign(r, L("map", "Investor ID"),
              [i \in 1..Len(r.rows) |-> StrStrip(r.rows[i][L("map", "Investor ID")])])

\* df[c] = df[c].astype(str).str.strip() for the listed columns the table has
StripKeys(df, keys) ==
    [cols |-> df.cols,
     rows |-> [i \in 1..Len(df.rows) |->
                 [k \in ColSet(df) |->
                     IF k \in keys THEN Strip(AsStr(df.rows[i][k])) ELSE df.rows[i][k]]]]

MapScanned(log) ==
    LET bad == FirstBadMap(1)
        upto == IF bad = 0 THEN Len(mapping_files) ELSE bad
    IN [fn \in DOMAIN log |->
          IF \E i \in 1..upto : mapping_files[i] = fn /\ files[fn].exists
          THEN <<[ids |-> mapping_id_cols,
                  hdr |-> detect_header_row(files[fn].sheet, mapping_id_cols)]>>
          ELSE log[fn]]

LoadAll ==
    /\ pc = "load_all"
    /\ LET rd == load_and_prefix(deal_files, "deals", "deals", deal_id_cols)
           rc == load_and_prefix(company_files, "comp", "companies", company_id_cols)
           rp == load_and_prefix(people_files, "people", "people", people_id_cols)
           bm == FirstBadMap(1)
           e  == IF rd.err # "none" THEN rd.err
                 ELSE IF rc.err # "none" THEN rc.err
                 ELSE IF rp.err # "none" THEN rp.err
                 ELSE IF bm # 0 THEN MapFileError(mapping_files[bm])
                 ELSE IF ~Has(rp.df, {L("people", "Primary Company")}) THEN "KeyError"
                 ELSE "none"
           l1 == Scanned(hdr_of, rd, deal_id_cols)
           l2 == Scanned(l1, rc, company_id_cols)
           l3 == Scanned(l2, rp, people_id_cols)
       IN /\ err' = e
          /\ pc' = IF e = "none" THEN "merge" ELSE "aborted"
          /\ hdr_of' = IF rd.err # "none" THEN l1
                       ELSE IF rc.err # "none" THEN l2
                       ELSE IF rp.err # "none" THEN l3
                       ELSE MapScanned(l3)
          /\ IF e = "none"
             THEN /\ deals_df' = StripKeys(rd.df, {L("deals", "Deal ID")})
                  /\ companies_df' = StripKeys(rc.df, {L("comp", "Company ID")})
                  /\ investors_df' = StripKeys(inv_raw, {L("inv", "Investor ID"),
                                                         L("inv", "Investor Legal Name")})
                  /\ people_df' = Assign(rp.df, L("people", "Primary Company_norm"),
                                    [i \in 1..Len(rp.df.rows) |->
                                       normalize_text(rp.df.rows[i][L("people", "Primary Company")])])
                  /\ mapping_df' = StripKeys(MappingTable, {L("map", "Deal ID"),
                                      L("map", "Company ID"), L("map", "Investor ID")})
             ELSE UNCHANGED <<deals_df, companies_df, investors_df, people_df, mapping_df>>
    /\ UNCHANGED <<files, inv_raw, people_raw, fuzzy_map, merged, final_df, disk>>

-----------------------------------------------------------------------------
(* 7) Sequential merge *)

m1 == merge(mapping_df, deals_df, L("map", "Deal ID"), L("deals", "Deal ID"))

m2 == merge(m1, investors_df, L("map", "Investor ID"), L("inv", "Investor ID"))

m3 == merge(m2, companies_df, L("map", "Company ID"), L("comp", "Company ID"))

Merge ==
    /\ pc = "merge"
    /\ IF ~Has(deals_df, {L("deals", "Deal ID")}) \/ ~Has(companies_df, {L("comp", "Company ID")})
       THEN /\ err' = "KeyError"
            /\ pc' = "aborted"
            /\ UNCHANGED merged
       ELSE /\ merged' = merge(m3, people_df, <<"fuzzy_people">>, L("people", "Primary Company"))
            /\ pc' = "clean"
            /\ err' = err
    /\ UNCHANGED <<files, hdr_of, inv_raw, people_raw, fuzzy_map, deals_df, companies_df,
                   investors_df, people_df, mapping_df, final_df, disk>>

-----------------------------------------------------------------------------
(* 8) Clean and dedupe *)

KeyTriple == {L("deals", "Deal ID"), L("deals", "Investor ID"), L("deals", "Company ID")}

Scaffold == {L("map", "Deal ID"), L("map", "Company ID"), L("map", "Investor ID"),
             <<"fuzzy_people">>}

\* lines 193-196: the mapping's investor id becomes deals.Investor ID and the
\* scaffold columns go
Cleaned(df) == Drop(Assign(df, L("deals", "Investor ID"),
                           Column(df, L("map", "Investor ID"))), Scaffold)

RECURSIVE KeepLast(_, _, _)
KeepLast(rows, subset, i) ==
    IF i > Len(rows) THEN <<>>
    ELSE LET key(j) == [k \in subset |-> rows[j][k]]
             rest == KeepLast(rows, subset, i + 1)
         IN IF \E j \in (i + 1)..Len(rows) : key(j) = key(i) THEN rest
            ELSE <<rows[i]>> \o rest

\* the dedupe as it would be with keep="last"
DedupeKeepLast(df) == [cols |-> df.cols, rows |-> KeepLast(df.rows, KeyTriple, 1)]

\* lines 197-200
Dedupe(df) == drop_duplicates(df, KeyTriple)

CleanDedupe ==
    /\ pc = "clean"
    /\ IF ~Has(Cleaned(merged), KeyTriple)
       THEN /\ err' = "KeyError"
            /\ pc' = "aborted"
            /\ UNCHANGED final_df
       ELSE /\ final_df' = Dedupe(Cleaned(merged))
            /\ pc' = "save_merged"
            /\ err' = err
    /\ UNCHANGED <<files, hdr_of, inv_raw, people_raw, fuzzy_map, deals_df, companies_df,
                   investors_df, people_df, mapping_df, merged, disk>>

-----------------------------------------------------------------------------
(* 9) Reorder and save the full merged table *)

front == <<L("deals", "Deal ID"), L("deals", "Company ID"), L("deals", "Investor ID")>>

IsFileCol(c) == EndsWith(c, <<".", "file_source">>) \/ EndsWith(c, <<".", "file_source_type">>)

ordered(all_cols) ==
    LET deals_cols  == SelectSeq(all_cols, LAMBDA c : StartsWith(c, <<"deals", ".">>)
                                                      /\ c \notin Range(front))
        inv_cols    == SelectSeq(all_cols, LAMBDA c : StartsWith(c, <<"inv", ".">>))
        comp_cols   == SelectSeq(all_cols, LAMBDA c : StartsWith(c, <<"comp", ".">>))
        people_cols == SelectSeq(all_cols, LAMBDA c : StartsWith(c, <<"people", ".">>))
        file_cols   == SelectSeq(all_cols, IsFileCol)
    IN front \o deals_cols \o inv_cols \o comp_cols \o people_cols \o file_cols

SaveMerged ==
    /\ pc = "save_merged"
    /\ disk' = [disk EXCEPT ![OUTPUT_MERGED] = <<Select(final_df, ordered(final_df.cols))>>]
    /\ pc' = "save_refined"
    /\ UNCHANGED <<files, err, hdr_of, inv_raw, people_raw, fuzzy_map, deals_df,
                   companies_df, investors_df, people_df, mapping_df, merged, final_df>>

-----------------------------------------------------------------------------
(* 10) Refine and save *)

\* s.isna().all() or s.astype(str).str.strip().eq("").all()
is_blank_or_na(s) ==
    \/ \A i \in 1..Len(s) : s[i] = NA
    \/ \A i \in 1..Len(s) : Strip(AsStr(s[i])) = <<>>

to_drop(df) == {c \in ColSet(df) : StartsWith(c, <<"Unnamed">>) \/ is_blank_or_na(Column(df, c))}

refined(df) == Drop(df, to_drop(df))

SaveRefined ==
    /\ pc = "save_refined"
    /\ disk' = [disk EXCEPT ![OUTPUT_REFINED] = <<refined(final_df)>>]
    /\ pc' = "summary"
    /\ UNCHANGED <<files, err, hdr_of, inv_raw, people_raw, fuzzy_map, deals_df,
                   companies_df, investors_df, people_df, mapping_df, merged, final_df>>

-----------------------------------------------------------------------------
(* 11) Validation summary: the investor files are read once more, their
   header looked for under "Investor ID" alone *)

summary_id_cols == {<<"Investor ID">>}

ValidationSummary ==
    /\ pc = "summary"
    /\ LET bad == FirstBad(investor_files, summary_id_cols, 1)
           res == [scanned |-> {investor_files[i] :
                                   i \in 1..(IF bad = 0 THEN Len(investor_files) ELSE bad)}]
       IN /\ hdr_of' = Scanned(hdr_of, res, summary_id_cols)
          /\ err' = IF bad = 0 THEN err ELSE FileError(investor_files[bad], summary_id_cols)
          /\ pc' = IF bad = 0 THEN "done" ELSE "aborted"
    /\ UNCHANGED <<files, inv_raw, people_raw, fuzzy_map, deals_df, companies_df,
                   investors_df, people_df, mapping_df, merged, final_df, disk>>

Next ==
    \/ LoadOverlapInputs
    \/ OverlapAnalysis
    \/ BuildFuzzyMap
    \/ LoadAll
    \/ Merge
    \/ CleanDedupe
    \/ SaveMerged
    \/ SaveRefined
    \/ ValidationSummary

-----------------------------------------------------------------------------
(* Inputs *)

SeqsUpTo(S, n) == UNION {[1..k -> S] : k \in 0..n}

\* a spreadsheet: title rows, the header row, the data rows
Sheet(lead, header, data) == lead \o <<header>> \o data

File(sheet) == [exists |-> TRUE, sheet |-> sheet]

D1 == <<"D", "1">>
D9 == <<"D", "9">>
C1 == <<"C", "1">>
C2 == <<"C", "2">>
I1 == <<"I", "1">>
I9 == <<"I", "9">>

TitleRow(width) == [i \in 1..width |-> IF i = 1 THEN <<"PitchBook">> ELSE NA]

DealsHeader == <<<<"Deal ID">>, <<"Company ID">>, NA>>

CompaniesHeader == <<<<"Company ID">>>>

InvestorsHeader == <<<<"Investor ID">>, <<"Investor Legal Name">>, <<"PBId">>>>

PeopleHeader == <<<<"PBId">>, <<"Primary Company">>>>

MappingHeader == <<<<"Deal ID">>, <<"Company ID">>, <<"Investor ID">>>>

\* the spreadsheets of a run: deal D1 of company C1 (with a note in a column
\* without a header), company C1, the given investors, people and mappings
Sheets(deals2, investors, people, mapA, mapB) ==
    [fn \in AllFiles |->
        File(CASE fn = deal_files[1] ->
                    Sheet(<<TitleRow(3)>>, DealsHeader, <<<<D1, C1, <<"x">>>>>>)
               [] fn = deal_files[2] -> Sheet(<<>>, DealsHeader, deals2)
               [] fn = company_files[1] -> Sheet(<<>>, CompaniesHeader, <<<<C1>>>>)
               [] fn = investor_files[1] -> Sheet(<<>>, InvestorsHeader, investors)
               [] fn = people_files[1] -> Sheet(<<TitleRow(2)>>, PeopleHeader, people)
               [] fn = mapping_files[1] -> Sheet(<<>>, MappingHeader, mapA)
               [] fn = mapping_files[2] -> Sheet(<<>>, MappingHeader, mapB)
               [] fn \in Range(company_files) -> Sheet(<<>>, CompaniesHeader, <<>>)
               [] fn \in Range(investor_files) -> Sheet(<<>>, InvestorsHeader, <<>>)
               [] OTHER -> Sheet(<<>>, PeopleHeader, <<>>))]

\* the state the script starts in
Start(fs) ==
    /\ files = fs
    /\ pc = "load_overlap"
    /\ err = "none"
    /\ hdr_of = [fn \in AllFiles |-> <<>>]
    /\ inv_raw = NoFrame
    /\ people_raw = NoFrame
    /\ fuzzy_map = <<>>
    /\ deals_df = NoFrame
    /\ companies_df = NoFrame
    /\ investors_df = NoFrame
    /\ people_df = NoFrame
    /\ mapping_df = NoFrame
    /\ merged = NoFrame
    /\ final_df = NoFrame
    /\ disk = [a \in Artifacts |-> <<>>]

MaxMapRows == 2

MaxPeopleRows == 1

TriplePool == {<<D1, C1, I1>>, <<D1, C2, I1>>, <<D9, C1, I1>>, <<D9, C2, I1>>,
               <<D1, C1, I9>>, <<D1, C1, <<" ", "I", "1">>>>}

InvNamePool == {<<"a", "b", "c">>, <<"q">>}

PeoplePool == {<<"a", "b", "c", "d">>, <<" ", "a", "b", "c", "d">>, NA}

PeopleRows(cells) == [i \in 1..Len(cells) |-> <<<<"P", "1">>, cells[i]>>]

\* every file present and well formed.  Either the two mapping files and a
\* second copy of the deal vary, with one person whose company is named or
\* blank; or the investor's name and the people vary under a one-row mapping.
Init ==
    \/ \E mapA \in SeqsUpTo(TriplePool, MaxMapRows),
          mapB \in {<<>>, <<<<D1, C1, I1>>>>},
          deals2 \in {<<>>, <<<<D1, C1, NA>>>>},
          ppl \in {<<<<"a", "b", "c", "d">>>>, <<NA>>} :
           Start(Sheets(deals2, <<<<I1, <<"a", "b", "c">>, NA>>>>, PeopleRows(ppl),
                        mapA, mapB))
    \/ \E name \in InvNamePool,
          ppl \in SeqsUpTo(PeoplePool, MaxPeopleRows),
          inv \in {I1, I9} :
           Start(Sheets(<<>>, <<<<I1, name, NA>>>>, PeopleRows(ppl),
                        <<<<D1, C1, inv>>>>, <<>>))

Spec == Init /\ [][Next]_vars

-----------------------------------------------------------------------------
(* Inputs for the fuzzy map: two investors and a list of people whose names
   tie, differ in case and punctuation, or differ in word order *)

MaxTargets == 2

SourcePool == {<<"a", "b", "c">>, <<"b", " ", "a">>, <<"A", "!", "b">>, NA}

TargetPool == {<<"a", "b", "c", "d">>, <<"a", "b", "c", "e">>, <<"A", "B", "C">>,
               <<"a", " ", "b">>, NA}

InitFuzzy ==
    \E n1 \in SourcePool, n2 \in SourcePool, ppl \in SeqsUpTo(TargetPool, MaxTargets) :
        Start(Sheets(<<>>, <<<<I1, n1, NA>>, <<<<"I", "2">>, n2, NA>>>>, PeopleRows(ppl),
                     <<<<D1, C1, I1>>>>, <<>>))

SpecFuzzy == InitFuzzy /\ [][Next]_vars

-----------------------------------------------------------------------------
(* Inputs for the loaders: one file with title rows above its header, a
   header with padded labels or none, a note that holds a label above the
   header; or files that do not exist *)

MaxLead == 21

MaxMissing == 1

ShapedFiles == {investor_files[1], deal_files[1], mapping_files[1]}

HeaderOf(fn) ==
    CASE fn \in Range(deal_files) -> DealsHeader
      [] fn \in Range(company_files) -> CompaniesHeader
      [] fn \in Range(investor_files) -> InvestorsHeader
      [] fn \in Range(people_files) -> PeopleHeader
      [] OTHER -> MappingHeader

Padded(header) ==
    [i \in 1..Len(header) |->
        IF header[i] = NA THEN NA ELSE <<Space>> \o header[i] \o <<Space>>]

BlankRow(width) == [i \in 1..width |-> NA]

\* a row above the header whose first cell is the header's first label
NoteRow(header) == [i \in 1..Len(header) |-> IF i = 1 THEN header[1] ELSE NA]

DataOf(fn) ==
    CASE fn \in Range(deal_files) -> <<D1, C1, <<"x">>>>
      [] fn \in Range(investor_files) -> <<I1, <<"a", "b", "c">>, NA>>
      [] OTHER -> <<D1, C1, I1>>

Shaped(fn, n, leadRow, note, header) ==
    [i \in 1..n |-> leadRow] \o note \o <<header>> \o <<DataOf(fn)>>

Defaults == Sheets(<<>>, <<<<I1, <<"a", "b", "c">>, NA>>>>,
                   PeopleRows(<<<<"a", "b", "c", "d">>>>), <<<<D1, C1, I1>>>>, <<>>)

InitLoad ==
    \/ \E fn \in ShapedFiles, n \in 0..MaxLead :
          LET h == HeaderOf(fn)
              w == Len(h)
          IN \E leadRow \in {TitleRow(w), BlankRow(w)},
                note \in {<<>>, <<NoteRow(h)>>},
                header \in {h, Padded(h), TitleRow(w)} :
                 Start([Defaults EXCEPT ![fn] = File(Shaped(fn, n, leadRow, note, header))])
    \/ \E missing \in {m \in SUBSET AllFiles : Cardinality(m) <= MaxMissing} :
          Start([fn \in AllFiles |-> [Defaults[fn] EXCEPT !.exists = fn \notin missing]])

SpecLoad == InitLoad /\ [][Next]_vars

-----------------------------------------------------------------------------
(* Properties *)

Rows(df) == {df.rows[i] : i \in 1..Len(df.rows)}

\* section 5 has run
FuzzyBuilt == <<"fuzzy_people">> \in ColSet(inv_raw)

\* section 7 has run
JoinDone == merged.cols # <<>>

\* section 8 has run
FinalComputed == final_df.cols # <<>>

FinalKey(r) == <<r[L("deals", "Deal ID")], r[L("deals", "Investor ID")],
                 r[L("deals", "Company ID")]>>

JoinedKey(r) == <<r[L("deals", "Deal ID")], r[L("map", "Investor ID")],
                  r[L("deals", "Company ID")]>>

FirstWithKey(k) ==
    CHOOSE i \in 1..Len(merged.rows) :
        /\ JoinedKey(merged.rows[i]) = k
        /\ \A j \in 1..(i - 1) : JoinedKey(merged.rows[j]) # k

\* C1: in the final table no two rows carry the same (Deal ID, Investor ID,
\* Company ID) triple, the triples are those of the joined table, and the row
\* kept for a triple is the first row of the joined table with that triple.
C1_FinalKeyUniqueFirstKept ==
    FinalComputed =>
        /\ \A i, j \in 1..Len(final_df.rows) :
              FinalKey(final_df.rows[i]) = FinalKey(final_df.rows[j]) => i = j
        /\ {FinalKey(r) : r \in Rows(final_df)} = {JoinedKey(r) : r \in Rows(merged)}
        /\ \A r \in Rows(final_df) :
              \A c \in ColSet(final_df) \ {L("deals", "Investor ID")} :
                  r[c] = merged.rows[FirstWithKey(FinalKey(r))][c]

\* C1 witness: the joined table held two rows with one triple that differ in
\* a column the final table keeps, and the final table still has two rows.
C1_Witness ==
    /\ FinalComputed
    /\ Len(final_df.rows) >= 2
    /\ \E i, j \in 1..Len(merged.rows) :
          /\ i < j
          /\ JoinedKey(merged.rows[i]) = JoinedKey(merged.rows[j])
          /\ \E c \in ColSet(final_df) \ {L("deals", "Investor ID")} :
                merged.rows[i][c] # merged.rows[j][c]

\* the key triples of the loaded mapping table
MappingTriples ==
    {<<r[L("map", "Deal ID")], r[L("map", "Investor ID")], r[L("map", "Company ID")]>> :
        r \in Rows(mapping_df)}

\* C2: for every distinct key triple of the mapping the final table holds
\* exactly one row, whose deals.Investor ID is the mapping's Investor ID, also
\* when the mapping's ids match no deal, investor or company.
C2_OneRowPerMappingTriple ==
    FinalComputed =>
        /\ Len(final_df.rows) = Cardinality(MappingTriples)
        /\ \A inv \in {t[2] : t \in MappingTriples} :
              Cardinality({i \in 1..Len(final_df.rows) :
                              final_df.rows[i][L("deals", "Investor ID")] = inv})
                  = Cardinality({t \in MappingTriples : t[2] = inv})

\* the key triples as the cells of the mapping files spell them
RawTriples ==
    UNION {{<<r[<<"Deal ID">>], r[<<"Investor ID">>], r[<<"Company ID">>]>> :
               r \in Rows(LoadMapFile(mapping_files[i]))} : i \in 1..Len(mapping_files)}

KeyUnique(df, c) ==
    \A i, j \in 1..Len(df.rows) : df.rows[i][c] = df.rows[j][c] => i = j

SideKeysUnique ==
    /\ KeyUnique(deals_df, L("deals", "Deal ID"))
    /\ KeyUnique(investors_df, L("inv", "Investor ID"))
    /\ KeyUnique(companies_df, L("comp", "Company ID"))
    /\ KeyUnique(people_df, L("people", "Primary Company"))

\* C3: when the mapping files together hold n distinct key triples and each
\* of deals, investors, companies and people has at most one row per join
\* key, the joined table has exactly n rows before the final dedupe.
C3_JoinedRowsEqualDistinctTriples ==
    (JoinDone /\ SideKeysUnique) => Len(merged.rows) = Cardinality(RawTriples)

\* C4: a joined row whose investor has no fuzzy match, or whose mapping
\* Investor ID matched no investor, has every people column null.
C4_NoMatchLeavesPeopleNull ==
    JoinDone =>
        \A r \in Rows(merged) :
            r[<<"fuzzy_people">>] = NA => \A c \in ColSet(people_df) : r[c] = NA

Similarity(s, t) == token_sort_ratio(normalize_text(s), normalize_text(t))

\* the positions of the target list whose similarity to s is greatest
BestPositions(s) ==
    {j \in 1..Len(people_names) :
        \A k \in 1..Len(people_names) :
            ~ScoreGreater(Similarity(s, people_names[k]), Similarity(s, people_names[j]))}

ExpectedMatch(s) ==
    LET p == CHOOSE j \in BestPositions(s) : \A k \in BestPositions(s) : j <= k
    IN IF AtLeast(Similarity(s, people_names[p]), threshold) THEN people_names[p]
       ELSE NA

Qualifies(row, ids) == \E j \in 1..Len(row) : row[j] # NA /\ Strip(row[j]) \in ids

\* the table a file's category is loaded into first
TableOf(fn) ==
    CASE fn \in Range(investor_files) -> inv_raw
      [] fn \in Range(people_files) -> people_raw
      [] fn \in Range(deal_files) -> deals_df
      [] fn \in Range(company_files) -> companies_df
      [] OTHER -> mapping_df

\* C6: detect_header_row returns the index of the first of the first 20 rows
\* that holds an acceptable label; when none of them does it returns no index:
\* the run ends with ValueError and the category's table is not loaded.
C6_HeaderIsFirstQualifyingRowOrAbort ==
    \A fn \in AllFiles :
        hdr_of[fn] # <<>> =>
            LET e == hdr_of[fn][1]
                sheet == files[fn].sheet
                Q == {i \in 1..Min(nrows, Len(sheet)) : Qualifies(sheet[i], e.ids)}
            IN IF Q = {}
               THEN /\ e.hdr = NotFound
                    /\ pc = "aborted"
                    /\ err = "ValueError"
                    /\ e.ids # summary_id_cols => TableOf(fn) = NoFrame
               ELSE /\ e.hdr + 1 \in Q
                    /\ \A i \in Q : e.hdr + 1 <= i

\* C6 witness: a file whose only rows with a label lie below the first 20
\* rows was searched, and the run ended with ValueError.
C6_Witness ==
    \E fn \in AllFiles :
        /\ hdr_of[fn] # <<>>
        /\ hdr_of[fn][1].hdr = NotFound
        /\ \E i \in (nrows + 1)..Len(files[fn].sheet) :
              Qualifies(files[fn].sheet[i], hdr_of[fn][1].ids)
        /\ err = "ValueError"

\* C7: when a declared input file does not exist the run aborts with a
\* missing-input error, and at the abort no output artifact has been written.
C7_MissingInputWritesNothing ==
    (\E fn \in AllFiles : ~files[fn].exists) =>
        /\ pc # "done"
        /\ pc = "aborted" => /\ err = "FileNotFoundError"
                             /\ \A a \in Artifacts : disk[a] = <<>>

IsProvenance(c) == c[Len(c)] \in {"file_source", "file_source_type"}

\* the place of a column in the fixed order
Group(c) ==
    IF IsProvenance(c) THEN 5
    ELSE CASE c[1] = "deals" -> 1
           [] c[1] = "inv" -> 2
           [] c[1] = "comp" -> 3
           [] c[1] = "people" -> 4
           [] OTHER -> 6

\* C8: the written full merged table has the key triple first, then the other
\* deal columns, the investor, company and people columns, and all provenance
\* columns last; every column of the final table appears exactly once.
C8_ColumnOrder ==
    disk[OUTPUT_MERGED] # <<>> =>
        LET cols == disk[OUTPUT_MERGED][1].cols
        IN /\ SubSeq(cols, 1, 3) = front
           /\ Range(cols) = ColSet(final_df)
           /\ \A i, j \in 1..Len(cols) : cols[i] = cols[j] => i = j
           /\ \A i, j \in 1..Len(cols) : i < j => Group(cols[i]) <= Group(cols[j])

IsUnnamed(c) == \E i \in 1..Len(c) : c[i] = "Unnamed"

AllBlank(df, c) == \A r \in Rows(df) : r[c] = NA \/ Strip(r[c]) = <<>>

\* C9: the refined table has no unnamed column and no column that is blank or
\* missing in every row, and keeps every other column of the final table.
C9_RefinedDropsUnnamedAndBlank ==
    disk[OUTPUT_REFINED] # <<>> =>
        LET ref == disk[OUTPUT_REFINED][1]
        IN Range(ref.cols) = {c \in ColSet(final_df) : ~IsUnnamed(c) /\ ~AllBlank(final_df, c)}

\* C10: a joined row whose investor was given a matched people name has a
\* people row attached.
C10_MatchedNameAttachesPeople ==
    JoinDone =>
        \A r \in Rows(merged) :
            r[<<"fuzzy_people">>] # NA => r[L("people", "file_source")] # NA

====
